---- MODULE Spec2Model ----
(***************************************************************************)
(* Build Dependency Reconciliation Engine of DBJavaGenix.                  *)
(*                                                                         *)
(* State: the project's build files on disk, the backups beside them, the  *)
(* wall clock, the mutable requirement catalog held by the long-lived      *)
(* DependencyManager / PomAnalyzer / DependencyRequirements instance, the  *)
(* generation profile of the project and the result of the last call.      *)
(*                                                                         *)
(* Text is modelled structurally:                                          *)
(*   - a dotted name ("org.springdoc") is the sequence of its segments,    *)
(*     so str.startswith("jakarta.") is a test on the first segment;       *)
(*   - a version ("1.18.36") is the sequence of its dot-separated parts,   *)
(*     a part that is not all digits ("Final") is a negative number;       *)
(*   - a manifest is the sequence of its tokens (tags, complete dependency *)
(*     elements, comments, dangling fragments); white space is dropped.    *)
(***************************************************************************)
EXTENDS Integers, Sequences, FiniteSets, TLC

VARIABLES files, backups, clock, catalog, profile, last

vars == <<files, backups, clock, catalog, profile, last>>

(***************************************************************************)
(* Bounds of the model.                                                    *)
(***************************************************************************)
\* At most this many dependencies are declared in an initial manifest.
MaxInitDeps == 1
\* A call that would grow a manifest beyond this many tokens is not taken.
MaxDocLen == 48
\* The clock (in seconds) runs from 0 to MaxClock.
MaxClock == 1
\* An existing version compared on its own has at most this many parts.
MaxVersionParts == 3

(***************************************************************************)
(* Small helpers on sequences.                                             *)
(***************************************************************************)
RECURSIVE Concat(_)
Concat(ss) == IF ss = <<>> THEN <<>> ELSE Head(ss) \o Concat(Tail(ss))

\* F applied to the value of e: e is evaluated once, whatever number of times
\* F uses its argument.
With(e, F(_)) == CHOOSE y \in {F(x) : x \in {e}} : TRUE

Count(s, P(_)) == Len(SelectSeq(s, P))

\* Smallest / largest member of a non-empty set of integers.
Min(S) == CHOOSE x \in S : \A y \in S : x <= y
Max(S) == CHOOSE x \in S : \A y \in S : x >= y

\* s with the sequence ins spliced in before position i (1 <= i <= Len(s)+1).
InsertAt(s, i, ins) == SubSeq(s, 1, i - 1) \o ins \o SubSeq(s, i, Len(s))

\* Python's `version.startswith("<a>.")` on a dotted version.
StartsWithMajor(v, a) == Len(v) >= 2 /\ v[1] = a

\* Python's `part.startswith("<d>")` for a numeric part below 100 and a digit d:
\* "3.1" is a prefix of "3.1", "3.1.5" and also of "3.10".
DigitPrefix(part, d) == part = d \/ (part >= 10 /\ part \div 10 = d)

\* Python's `version.startswith("<a>.<b>")`.
StartsWithMajorMinor(v, a, b) == Len(v) >= 2 /\ v[1] = a /\ DigitPrefix(v[2], b)

(***************************************************************************)
(* dependency_requirements.py: the requirement catalog.                    *)
(***************************************************************************)
\* class DependencyInfo; mt is the catalog key of migration_target ("" = None).
DependencyInfo(g, a, v, scope, status, mt) ==
    [g |-> g, a |-> a, v |-> v, scope |-> scope, status |-> status, mt |-> mt]

\* The keys of DATABASE_DEPENDENCIES.
DATABASE_KEYS == {"mysql", "mysql-legacy", "postgresql", "sqlite"}

BootGroup == <<"org", "springframework", "boot">>

\* DependencyRequirements._initialize_dependency_catalog: the four dictionaries,
\* as one function of the dictionary key (the keys are pairwise distinct).
FreshCatalog ==
       "spring-boot-starter" :> DependencyInfo(BootGroup, <<"spring-boot-starter">>, <<3, 5, 5>>, "compile", "required", "")
    @@ "spring-boot-starter-web" :> DependencyInfo(BootGroup, <<"spring-boot-starter-web">>, <<3, 5, 5>>, "compile", "required", "")
    @@ "spring-boot-starter-data-jpa" :> DependencyInfo(BootGroup, <<"spring-boot-starter-data-jpa">>, <<3, 5, 5>>, "compile", "required", "")
    @@ "spring-boot-starter-validation" :> DependencyInfo(BootGroup, <<"spring-boot-starter-validation">>, <<3, 5, 5>>, "compile", "required", "")
    @@ "mysql" :> DependencyInfo(<<"com", "mysql">>, <<"mysql-connector-j">>, <<8, 4, 0>>, "compile", "required", "")
    @@ "mysql-legacy" :> DependencyInfo(<<"mysql">>, <<"mysql-connector-java">>, <<8, 0, 33>>, "compile", "deprecated", "")
    @@ "postgresql" :> DependencyInfo(<<"org", "postgresql">>, <<"postgresql">>, <<42, 7, 4>>, "compile", "required", "")
    @@ "sqlite" :> DependencyInfo(<<"org", "xerial">>, <<"sqlite-jdbc">>, <<3, 46, 1, 3>>, "compile", "required", "")
    @@ "mybatis" :> DependencyInfo(<<"org", "mybatis">>, <<"mybatis">>, <<3, 5, 16>>, "compile", "required", "")
    @@ "mybatis-spring-boot" :> DependencyInfo(<<"org", "mybatis", "spring", "boot">>, <<"mybatis-spring-boot-starter">>, <<3, 0, 4>>, "compile", "required", "")
    @@ "mybatis-plus" :> DependencyInfo(<<"com", "baomidou">>, <<"mybatis-plus-spring-boot3-starter">>, <<3, 5, 7>>, "compile", "required", "")
    @@ "mybatis-plus-generator" :> DependencyInfo(<<"com", "baomidou">>, <<"mybatis-plus-generator">>, <<3, 5, 7>>, "compile", "optional", "")
    @@ "velocity-engine" :> DependencyInfo(<<"org", "apache", "velocity">>, <<"velocity-engine-core">>, <<2, 4, 1>>, "compile", "optional", "")
    @@ "freemarker" :> DependencyInfo(<<"org", "freemarker">>, <<"freemarker">>, <<2, 3, 33>>, "compile", "optional", "")
    @@ "lombok" :> DependencyInfo(<<"org", "projectlombok">>, <<"lombok">>, <<1, 18, 36>>, "compile", "optional", "")
    @@ "mapstruct" :> DependencyInfo(<<"org", "mapstruct">>, <<"mapstruct">>, <<1, 6, 3>>, "compile", "optional", "")
    @@ "mapstruct-processor" :> DependencyInfo(<<"org", "mapstruct">>, <<"mapstruct-processor">>, <<1, 6, 3>>, "provided", "optional", "")
    @@ "springdoc-openapi" :> DependencyInfo(<<"org", "springdoc">>, <<"springdoc-openapi-starter-webmvc-ui">>, <<2, 7, 0>>, "compile", "recommended", "")
    @@ "swagger-annotations-deprecated" :> DependencyInfo(<<"io", "swagger">>, <<"swagger-annotations">>, <<1, 6, 14>>, "compile", "deprecated", "springdoc-openapi")
    @@ "jakarta-annotation" :> DependencyInfo(<<"jakarta", "annotation">>, <<"jakarta", "annotation-api">>, <<2, 1, 1>>, "compile", "recommended", "")
    @@ "jakarta-validation" :> DependencyInfo(<<"jakarta", "validation">>, <<"jakarta", "validation-api">>, <<3, 0, 2>>, "compile", "recommended", "")
    @@ "javax-annotation-deprecated" :> DependencyInfo(<<"javax", "annotation">>, <<"javax", "annotation-api">>, <<1, 3, 2>>, "compile", "deprecated", "jakarta-annotation")
    @@ "javax-validation-deprecated" :> DependencyInfo(<<"javax", "validation">>, <<"validation-api">>, <<2, 0, 1, -1>>, "compile", "deprecated", "jakarta-validation")

\* DependencyRequirements.get_spring_boot_version_compatibility (the three
\* entries adjust_versions_for_spring_boot reads).
get_spring_boot_version_compatibility(version) ==
    IF StartsWithMajor(version, 2)
    THEN [mybatis_version |-> <<3, 4, 6>>, mybatis_plus_version |-> <<3, 4, 3>>,
          mysql_connector_version |-> <<8, 0, 33>>]
    ELSE IF StartsWithMajorMinor(version, 3, 0) \/ StartsWithMajorMinor(version, 3, 1)
    THEN [mybatis_version |-> <<3, 5, 10>>, mybatis_plus_version |-> <<3, 5, 3>>,
          mysql_connector_version |-> <<8, 3, 0>>]
    ELSE IF StartsWithMajorMinor(version, 3, 2) \/ StartsWithMajorMinor(version, 3, 3)
    THEN [mybatis_version |-> <<3, 5, 14>>, mybatis_plus_version |-> <<3, 5, 5>>,
          mysql_connector_version |-> <<8, 3, 0>>]
    ELSE [mybatis_version |-> <<3, 5, 16>>, mybatis_plus_version |-> <<3, 5, 7>>,
          mysql_connector_version |-> <<8, 4, 0>>]

\* DependencyRequirements.adjust_versions_for_spring_boot: rewrites the catalog
\* entries of the instance in place.
adjust_versions_for_spring_boot(cat, spring_boot_version) ==
    LET compat == get_spring_boot_version_compatibility(spring_boot_version)
        modern == StartsWithMajorMinor(compat.mysql_connector_version, 8, 4)
    IN  [cat EXCEPT
            !["mybatis"].v = compat.mybatis_version,
            !["mybatis-plus"].v = compat.mybatis_plus_version,
            !["mybatis-plus"].a =
                IF StartsWithMajor(spring_boot_version, 2)
                THEN <<"mybatis-plus-boot-starter">>
                ELSE <<"mybatis-plus-spring-boot3-starter">>,
            !["mysql"].g = IF modern THEN <<"com", "mysql">> ELSE <<"mysql">>,
            !["mysql"].a = IF modern THEN <<"mysql-connector-j">>
                                     ELSE <<"mysql-connector-java">>,
            !["mysql"].v = compat.mysql_connector_version]

\* str.lower() on the database types the callers pass.
Lower(s) ==
    CASE s = "MySQL" -> "mysql"
      [] s = "PostgreSQL" -> "postgresql"
      [] OTHER -> s

\* DependencyRequirements.analyze_requirements: the catalog of the instance after
\* the call and the returned dictionary (its keys in insertion order: required,
\* optional, recommended, deprecated).  spring_boot_version <<>> is None.
analyze_requirements(cat, template_category, database_type, include_swagger, include_lombok, include_mapstruct, spring_boot_version) ==
    LET c == IF spring_boot_version # <<>>
             THEN adjust_versions_for_spring_boot(cat, spring_boot_version)
             ELSE cat
        db_key == Lower(database_type)
    IN  [catalog |-> c,
         required |->
               <<c["spring-boot-starter"], c["spring-boot-starter-web"],
                 c["spring-boot-starter-validation"]>>
            \o (IF db_key \in DATABASE_KEYS THEN <<c[db_key]>> ELSE <<>>)
            \o (IF template_category = "Default"
                THEN <<c["mybatis"], c["mybatis-spring-boot"]>>
                ELSE IF template_category \in {"MybatisPlus", "MybatisPlus-Mixed"}
                THEN <<c["mybatis-plus"]>>
                ELSE <<>>),
         optional |->
               (IF include_lombok THEN <<c["lombok"]>> ELSE <<>>)
            \o (IF include_mapstruct
                THEN <<c["mapstruct"], c["mapstruct-processor"]>> ELSE <<>>),
         recommended |->
               (IF include_swagger THEN <<c["springdoc-openapi"]>> ELSE <<>>)
            \o <<c["jakarta-annotation"], c["jakarta-validation"]>>,
         deprecated |->
               (IF include_swagger THEN <<c["swagger-annotations-deprecated"]>> ELSE <<>>)
            \o <<c["javax-annotation-deprecated"], c["javax-validation-deprecated"]>>]

\* The dictionary's values in iteration order (requirements.items()).
RequirementList(reqs) ==
    reqs.required \o reqs.optional \o reqs.recommended \o reqs.deprecated

(***************************************************************************)
(* Manifests as token sequences.                                           *)
(*   k = "open" / "close" : a start / end tag named n (x = "xmlns" on a    *)
(*                          root tag that declares the Maven namespace)    *)
(*   k = "dep"            : a complete <dependency> element, d its content *)
(*   k = "boot"           : the framework version declaration, v (the      *)
(*                          <parent> block in pom.xml, the plugin line in  *)
(*                          build.gradle)                                  *)
(*   k = "marker"         : the comment "DBJavaGenix 自动添加的依赖"       *)
(*   k = "desc"           : the comment "<description>: <reason>" of d     *)
(*   k = "frag"           : a line holding only the dangling fragment "</" *)
(*   k = "gopen"/"gclose" : "dependencies {" and its "}"                   *)
(*   k = "decl"           : a Gradle declaration, n its keyword, x its     *)
(*                          form ("groovy": kw 'g:a:v', "kotlin":          *)
(*                          kw("g:a:v")), d its content                    *)
(*   k = "gcomment"       : a "//" comment line about d                    *)
(***************************************************************************)
\* class ExistingDependency (and the same fields as written to a manifest);
\* v = <<>> is "no version", s the scope.
ExistingDependency(g, a, v, s) == [g |-> g, a |-> a, v |-> v, s |-> s]

NoDep == ExistingDependency(<<>>, <<>>, <<>>, "")

Tok(k, n, x, d, v) == [k |-> k, n |-> n, x |-> x, d |-> d, v |-> v]

OpenTag(n) == Tok("open", n, "", NoDep, <<>>)
OpenRoot(ns) == Tok("open", "project", IF ns THEN "xmlns" ELSE "", NoDep, <<>>)
CloseTag(n) == Tok("close", n, "", NoDep, <<>>)
DepTok(d) == Tok("dep", "dependency", "", d, <<>>)
BootTok(v) == Tok("boot", "", "", NoDep, v)
Marker == Tok("marker", "", "", NoDep, <<>>)
DescTok(d) == Tok("desc", "", "", d, <<>>)
Frag == Tok("frag", "", "", NoDep, <<>>)
GOpen == Tok("gopen", "dependencies", "", NoDep, <<>>)
GClose == Tok("gclose", "", "", NoDep, <<>>)
DeclTok(kw, form, d) == Tok("decl", kw, form, d, <<>>)
GComment(d) == Tok("gcomment", "", "", d, <<>>)

\* A file that does not exist.
NoFile == <<Tok("nofile", "", "", NoDep, <<>>)>>

POM == "pom.xml"
GRADLE == "build.gradle"
KTS == "build.gradle.kts"
FileNames == {POM, GRADLE, KTS}

\* Path.exists()
Exists(fs, name) == fs[name] # NoFile

\* The coordinate "group:artifact" of a catalog entry or a declared dependency.
Coord(d) == <<d.g, d.a>>

\* What a DependencyInfo is written as (the <scope> element is written only when
\* it is not "compile", which is also what a missing element is read as).
Written(dep) == ExistingDependency(dep.g, dep.a, dep.v, dep.scope)

\* xml.etree.ElementTree's parse of the document: the stack of open elements
\* after token i; "bad" once the document is not well-formed.  A complete
\* element or a second root outside the root element, an end tag that closes
\* nothing or the wrong element, and a dangling fragment are errors; comments
\* may stand anywhere.
RECURSIVE XmlScan(_, _, _, _)
XmlScan(doc, i, stack, roots) ==
    IF i > Len(doc) THEN (IF stack = <<>> /\ roots = 1 THEN "ok" ELSE "bad")
    ELSE LET t == doc[i] IN
         CASE t.k \in {"marker", "desc"} -> XmlScan(doc, i + 1, stack, roots)
           [] t.k = "open" ->
                IF stack = <<>> /\ roots >= 1 THEN "bad"
                ELSE XmlScan(doc, i + 1, <<t.n>> \o stack,
                             IF stack = <<>> THEN roots + 1 ELSE roots)
           [] t.k = "close" ->
                IF stack = <<>> \/ Head(stack) # t.n THEN "bad"
                ELSE XmlScan(doc, i + 1, Tail(stack), roots)
           [] t.k \in {"dep", "boot"} ->
                IF stack = <<>> THEN "bad" ELSE XmlScan(doc, i + 1, stack, roots)
           [] OTHER -> "bad"

\* ET.parse / ET.fromstring succeeds.
WellFormed(doc) == XmlScan(doc, 1, <<>>, 0) = "ok"

\* PomAnalyzer._detect_build_tool (and the two copies of it): "" is None.
_detect_build_tool(fs) ==
    IF Exists(fs, POM) THEN "maven"
    ELSE IF Exists(fs, GRADLE) \/ Exists(fs, KTS) THEN "gradle"
    ELSE ""

\* The Gradle file the engine opens: build.gradle, else build.gradle.kts.
GradleFile(fs) == IF Exists(fs, GRADLE) THEN GRADLE ELSE KTS

\* The dependency elements of a document, in document order.
DepsOf(doc) ==
    LET idx == {i \in DOMAIN doc : doc[i].k = "dep"}
        RECURSIVE Walk(_)
        Walk(i) == IF i > Len(doc) THEN <<>>
                   ELSE (IF i \in idx THEN <<doc[i].d>> ELSE <<>>) \o Walk(i + 1)
    IN  Walk(1)

\* PomAnalyzer._parse_pom_file: [] when the file is missing or does not parse;
\* the search is for elements in the root's namespace, or, when the root has
\* none, in the Maven namespace, which no element of such a document is in.
_parse_pom_file(fs) ==
    IF ~Exists(fs, POM) THEN <<>>
    ELSE IF ~WellFormed(fs[POM]) THEN <<>>
    ELSE IF fs[POM][1].x # "xmlns" THEN <<>>
    ELSE DepsOf(fs[POM])

\* The keywords the analyzer's three patterns accept.
AnalyzerGradleKeywords == {"implementation", "api", "compile", "testImplementation"}

\* PomAnalyzer._parse_gradle_file: the declarations with a version (first
\* pattern), then those without (second pattern); scope is always "compile".
_parse_gradle_file(fs, name) ==
    IF ~Exists(fs, name) THEN <<>>
    ELSE LET doc == fs[name]
             Seen(t) == t.k = "decl" /\ t.x = "groovy" /\ t.n \in AnalyzerGradleKeywords
             AsDep(t) == ExistingDependency(t.d.g, t.d.a, t.d.v, "compile")
             RECURSIVE Walk(_, _)
             Walk(i, versioned) ==
                 IF i > Len(doc) THEN <<>>
                 ELSE (IF Seen(doc[i]) /\ ((doc[i].d.v # <<>>) = versioned)
                       THEN <<AsDep(doc[i])>> ELSE <<>>) \o Walk(i + 1, versioned)
         IN  Walk(1, TRUE) \o Walk(1, FALSE)

\* PomAnalyzer._extract_spring_boot_version and
\* PomAnalyzer._extract_gradle_spring_boot_version: the first declaration of the
\* framework version in the text; <<>> is None.
ExtractBootVersion(fs, name) ==
    IF ~Exists(fs, name) THEN <<>>
    ELSE LET idx == {i \in DOMAIN fs[name] : fs[name][i].k = "boot"}
         IN  IF idx = {} THEN <<>> ELSE fs[name][Min(idx)].v

(***************************************************************************)
(* pom_analyzer.py: comparison, summary, automatic insertion.              *)
(***************************************************************************)
\* [int(x) for x in version.split('.') if x.isdigit()]
NumericParts(v) == SelectSeq(v, LAMBDA x : x >= 0)

\* parts.extend([0] * (max_len - len(parts)))
PadTo(parts, n) == parts \o [i \in 1 .. (n - Len(parts)) |-> 0]

\* Python's list comparison a < b.
RECURSIVE ListLess(_, _)
ListLess(a, b) ==
    IF b = <<>> THEN FALSE
    ELSE IF a = <<>> THEN TRUE
    ELSE IF Head(a) # Head(b) THEN Head(a) < Head(b)
    ELSE ListLess(Tail(a), Tail(b))

\* The decimal digits of a version part below 100.
Digits(x) == IF x < 10 THEN <<x>> ELSE <<x \div 10, x % 10>>

\* The comparison as it would be on the parts as text: "10" sorts before "2".
_is_version_outdated_lexicographic(current, required) ==
    LET current_parts == NumericParts(current)
        required_parts == NumericParts(required)
        max_len == Max({Len(current_parts), Len(required_parts)})
        cur == PadTo(current_parts, max_len)
        req == PadTo(required_parts, max_len)
        differ == {i \in 1 .. max_len : cur[i] # req[i]}
    IN  differ # {} /\ ListLess(Digits(cur[Min(differ)]), Digits(req[Min(differ)]))

\* PomAnalyzer._is_version_outdated
_is_version_outdated(current, required) ==
    LET current_parts == NumericParts(current)
        required_parts == NumericParts(required)
        max_len == Max({Len(current_parts), Len(required_parts)})
    IN  ListLess(PadTo(current_parts, max_len), PadTo(required_parts, max_len))

\* existing_dict.get(key): the last existing dependency with the coordinate;
\* NoDep is None.
Lookup(existing_deps, key) ==
    LET idx == {i \in DOMAIN existing_deps : Coord(existing_deps[i]) = key}
    IN  IF idx = {} THEN NoDep ELSE existing_deps[Max(idx)]

\* The status as it would be without the branch for deprecated requirements.
CompareOneByVersionOnly(req_dep, existing) ==
    IF existing = NoDep THEN "missing"
    ELSE IF existing.v # <<>> /\ _is_version_outdated(existing.v, req_dep.v) THEN "outdated"
    ELSE "exists"

\* The status PomAnalyzer._compare_dependencies gives one requirement.
CompareOne(req_dep, existing) ==
    IF existing = NoDep THEN "missing"
    ELSE IF req_dep.status = "deprecated" THEN "deprecated"
    ELSE IF existing.v # <<>> /\ _is_version_outdated(existing.v, req_dep.v) THEN "outdated"
    ELSE "exists"

\* class DependencyComparison
DependencyComparison(req_dep, existing) ==
    [requirement |-> req_dep, existing |-> existing,
     status |-> CompareOne(req_dep, existing)]

\* PomAnalyzer._compare_dependencies: one comparison per requirement, in the
\* dictionary's order.
_compare_dependencies(requirements, existing_deps) ==
    With(RequirementList(requirements), LAMBDA reqs :
        [i \in DOMAIN reqs |->
            DependencyComparison(reqs[i], Lookup(existing_deps, Coord(reqs[i])))])

JpaCoord == <<BootGroup, <<"spring-boot-starter-data-jpa">>>>
MybatisCoord == <<<<"org", "mybatis">>, <<"mybatis">>>>

\* The filter of step 3.1 as it would be if it dropped the MyBatis starter too.
TemplateFilteredStarterToo(template_category) ==
    IF template_category \in {"Default", "MybatisPlus", "MybatisPlus-Mixed"}
    THEN {JpaCoord, MybatisCoord,
          <<<<"org", "mybatis", "spring", "boot">>, <<"mybatis-spring-boot-starter">>>>}
    ELSE {}

\* The coordinates analyze_project_dependencies drops from the comparison list
\* for the three known template categories (step 3.1).
TemplateFiltered(template_category) ==
    IF template_category \in {"Default", "MybatisPlus", "MybatisPlus-Mixed"}
    THEN {JpaCoord, MybatisCoord}
    ELSE {}

\* PomAnalyzer._generate_summary
_generate_summary(comparisons) ==
    With(Count(comparisons, LAMBDA c : c.status = "missing"), LAMBDA missing :
    With(Count(comparisons, LAMBDA c : c.status = "exists"), LAMBDA exists :
    With(Count(comparisons, LAMBDA c : c.status = "outdated"), LAMBDA outdated :
    With(Count(comparisons, LAMBDA c : c.status = "deprecated"), LAMBDA deprecated :
    With(missing + outdated + deprecated, LAMBDA needs_attention :
        [total_requirements |-> Len(comparisons), missing |-> missing,
         exists |-> exists, outdated |-> outdated, deprecated |-> deprecated,
         needs_attention |-> needs_attention,
         health_score |-> Max({0, 100 - needs_attention * 10})])))))

\* One line of the recommendations: its kind and the coordinate it is about
\* (<<>> for a line about the framework version).
Recommendation(kind, coord) == [kind |-> kind, coord |-> coord]

NoRecommendations ==
    [critical |-> <<>>, important |-> <<>>, optional |-> <<>>, migration |-> <<>>]

\* The line PomAnalyzer._generate_recommendations writes for one comparison:
\* the bucket it goes to ("" for none) and the line.
RecommendOne(comp) ==
    LET dep == comp.requirement
        line(kind) == Recommendation(kind, Coord(dep))
    IN  IF comp.status = "missing"
        THEN IF dep.status = "required"
             THEN [bucket |-> "critical", line |-> line("required dependency missing")]
             ELSE IF dep.status = "recommended"
             THEN [bucket |-> "important", line |-> line("suggested to add")]
             ELSE [bucket |-> "optional", line |-> line("optional dependency")]
        ELSE IF comp.status = "deprecated"
        THEN [bucket |-> "migration", line |-> line("migration suggested")]
        ELSE IF comp.status = "outdated"
        THEN [bucket |-> "important", line |-> line("version upgrade")]
        ELSE [bucket |-> "", line |-> line("")]

\* PomAnalyzer._generate_recommendations: the four buckets, each in the order
\* of the comparisons, and the line about the framework version at the end.
_generate_recommendations(comparisons, spring_boot_version) ==
    With([i \in DOMAIN comparisons |-> RecommendOne(comparisons[i])], LAMBDA each :
        LET bucket(b) == LET of_b == SelectSeq(each, LAMBDA r : r.bucket = b)
                         IN  [i \in DOMAIN of_b |-> of_b[i].line]
        IN  [critical |-> bucket("critical"),
             important |-> bucket("important"),
             optional |-> bucket("optional")
                 \o (IF ~StartsWithMajor(spring_boot_version, 2)
                        /\ StartsWithMajor(spring_boot_version, 3)
                     THEN <<Recommendation("framework version is modern", <<>>)>>
                     ELSE <<>>),
             migration |-> bucket("migration")
                 \o (IF StartsWithMajor(spring_boot_version, 2)
                     THEN <<Recommendation("upgrade the framework to 3.x", <<>>)>>
                     ELSE <<>>)])

\* PomAnalyzer.analyze_project_dependencies: reads the manifest, asks the
\* catalog of the instance (which the call may rewrite), compares and filters.
analyze_project_dependencies(fs, cat, template_category, database_type, include_swagger, include_lombok, include_mapstruct) ==
    With(_detect_build_tool(fs), LAMBDA build_tool :
    With(IF build_tool = "maven" THEN _parse_pom_file(fs)
         ELSE IF build_tool = "gradle" THEN _parse_gradle_file(fs, GradleFile(fs))
         ELSE <<>>, LAMBDA existing_deps :
    With(IF build_tool = "maven" THEN ExtractBootVersion(fs, POM)
         ELSE IF build_tool = "gradle" THEN ExtractBootVersion(fs, GradleFile(fs))
         ELSE <<>>, LAMBDA spring_boot_version :
    With(analyze_requirements(cat, template_category, database_type,
                              include_swagger, include_lombok,
                              include_mapstruct, spring_boot_version), LAMBDA req :
    With(_compare_dependencies(req, existing_deps), LAMBDA compared :
    With(SelectSeq(compared, LAMBDA comp :
            Coord(comp.requirement) \notin TemplateFiltered(template_category)),
         LAMBDA comparison_results :
        [catalog |-> req.catalog,
         build_tool |-> build_tool,
         spring_boot_version |-> spring_boot_version,
         existing_dependencies |-> Len(existing_deps),
         requirements |-> [required |-> req.required, optional |-> req.optional,
                           recommended |-> req.recommended,
                           deprecated |-> req.deprecated],
         comparison_results |-> comparison_results,
         recommendations |-> _generate_recommendations(comparison_results,
                                                       spring_boot_version),
         summary |-> _generate_summary(comparison_results)]))))))

\* The lines written for a list of requirements in pom.xml: a description
\* comment and the element, per dependency.
MavenEntries(dependencies) ==
    Concat([i \in DOMAIN dependencies |->
              <<DescTok(Written(dependencies[i])), DepTok(Written(dependencies[i]))>>])

\* PomAnalyzer._add_maven_dependencies: the new content of pom.xml.  The block
\* searched is the first <dependencies> and the first </dependencies> after it.
_add_maven_dependencies(content, dependencies) ==
    LET opens == {i \in DOMAIN content : content[i] = OpenTag("dependencies")}
        closes == IF opens = {} THEN {}
                  ELSE {j \in DOMAIN content :
                          j > Min(opens) /\ content[j] = CloseTag("dependencies")}
        has_marker == \E i \in DOMAIN content : content[i] = Marker
        ends == {i \in DOMAIN content : content[i] = CloseTag("project")}
    IN  IF closes # {}
        THEN InsertAt(content, Min(closes),
                      (IF has_marker THEN <<>> ELSE <<Marker>>) \o MavenEntries(dependencies))
        ELSE LET section == <<OpenTag("dependencies"), Marker>>
                                \o MavenEntries(dependencies)
                                \o <<CloseTag("dependencies")>>
             IN  IF ends # {} THEN InsertAt(content, Max(ends), section)
                 ELSE content \o section

\* The lines written for a list of requirements in build.gradle by the analyzer:
\* the scopes of the catalog are not Gradle keywords, so the keyword is
\* "implementation".
AnalyzerGradleEntries(dependencies) ==
    Concat([i \in DOMAIN dependencies |->
              <<GComment(Written(dependencies[i])),
                DeclTok("implementation", "groovy", Written(dependencies[i]))>>])

\* PomAnalyzer._add_gradle_dependencies: the new content of the Gradle file.
_add_gradle_dependencies(content, dependencies) ==
    LET opens == {i \in DOMAIN content : content[i] = GOpen}
        closes == IF opens = {} THEN {}
                  ELSE {j \in DOMAIN content : j > Min(opens) /\ content[j] = GClose}
    IN  IF closes # {}
        THEN InsertAt(content, Min(closes), AnalyzerGradleEntries(dependencies))
        ELSE content \o <<GOpen>> \o AnalyzerGradleEntries(dependencies) \o <<GClose>>

\* The filter as it would be without its last two tests, on the jakarta. and
\* javax. groups.
is_allowed_base_apis(comp, is_boot2, uses_legacy_swagger) ==
    LET coord == Coord(comp.requirement)
        g == comp.requirement.g
    IN  /\ coord # JpaCoord
        /\ coord # MybatisCoord
        /\ IF is_boot2 \/ uses_legacy_swagger
           THEN g # <<"org", "springdoc">>
           ELSE g # <<"io", "swagger">> /\ g # <<"io", "springfox">>

\* is_allowed of PomAnalyzer.auto_add_missing_dependencies
is_allowed(comp, is_boot2, uses_legacy_swagger) ==
    LET coord == Coord(comp.requirement)
        g == comp.requirement.g
    IN  /\ coord # JpaCoord
        /\ coord # MybatisCoord
        /\ IF is_boot2 \/ uses_legacy_swagger
           THEN g # <<"org", "springdoc">>
           ELSE g # <<"io", "swagger">> /\ g # <<"io", "springfox">>
        /\ ~(Len(g) >= 2 /\ g[1] = "jakarta")
        /\ ~(Len(g) >= 2 /\ g[1] = "javax")

\* PomAnalyzer.auto_add_missing_dependencies: the files after the call and the
\* returned dictionary (added_count -1: the key is not in it).
auto_add_missing_dependencies(fs, comparison_results) ==
    With(_detect_build_tool(fs), LAMBDA build_tool :
    With(IF Exists(fs, POM) THEN ExtractBootVersion(fs, POM) ELSE <<>>, LAMBDA boot_version :
    With(IF Exists(fs, POM) THEN _parse_pom_file(fs) ELSE <<>>, LAMBDA existing :
    With(StartsWithMajor(boot_version, 2), LAMBDA is_boot2 :
    With(\E i \in DOMAIN existing :
            \/ existing[i].g = <<"io", "springfox">>
            \/ Coord(existing[i]) = <<<<"io", "swagger">>, <<"swagger-annotations">>>>,
         LAMBDA uses_legacy_swagger :
    With(SelectSeq(comparison_results, LAMBDA c :
            is_allowed(c, is_boot2, uses_legacy_swagger) /\ c.status = "missing"),
         LAMBDA chosen :
    With([i \in DOMAIN chosen |-> chosen[i].requirement], LAMBDA missing_deps :
    With(IF build_tool = "maven" THEN POM ELSE GradleFile(fs), LAMBDA name :
        IF build_tool = ""
        THEN [fs |-> fs, success |-> FALSE, added_count |-> -1, wrote |-> {},
              inserted |-> <<>>]
        ELSE IF missing_deps = <<>>
        THEN [fs |-> fs, success |-> TRUE, added_count |-> 0, wrote |-> {},
              inserted |-> <<>>]
        ELSE [fs |-> [fs EXCEPT ![name] =
                        IF build_tool = "maven"
                        THEN _add_maven_dependencies(fs[POM], missing_deps)
                        ELSE _add_gradle_dependencies(fs[name], missing_deps)],
              success |-> TRUE, added_count |-> Len(missing_deps), wrote |-> {name},
              inserted |-> missing_deps]))))))))

(***************************************************************************)
(* dependency_manager.py: the orchestrator.                                *)
(***************************************************************************)
\* The names bound at module level in dependency_manager.py (its imports).
ModuleGlobals ==
    {"Dict", "List", "Optional", "Any", "Path", "ET", "PomAnalyzer",
     "AutoDependencyManager", "DependencyRequirements"}

\* str.startswith on one segment of a dotted name: the segments of the model
\* that have another segment as a proper prefix.
SegStartsWith(seg, p) ==
    \/ seg = p
    \/ <<seg, p>> \in {<<"annotation-api", "annotation">>,
                       <<"validation-api", "validation">>,
                       <<"swagger-annotations", "swagger">>}

\* `"<p1>.<p2>" in name` for a dotted name: two neighbouring segments, the
\* first ending with p1 (no segment of the model has a proper suffix that is
\* another segment), the second starting with p2.
NameContains(name, p1, p2) ==
    \E i \in 1 .. (Len(name) - 1) : name[i] = p1 /\ SegStartsWith(name[i + 1], p2)

\* `"<p1>.<p2>" in key` for key = "group:artifact".
KeyContains(d, p1, p2) == NameContains(d.g, p1, p2) \/ NameContains(d.a, p1, p2)

\* DEPRECATED_MAPPINGS: the coordinate a deprecated coordinate is replaced by.
DEPRECATED_MAPPINGS ==
       <<<<"javax", "annotation">>, <<"javax", "annotation-api">>>> :>
            <<<<"jakarta", "annotation">>, <<"jakarta", "annotation-api">>>>
    @@ <<<<"javax", "validation">>, <<"validation-api">>>> :>
            <<<<"jakarta", "validation">>, <<"jakarta", "validation-api">>>>
    @@ <<<<"io", "swagger">>, <<"swagger-annotations">>>> :>
            <<<<"org", "springdoc">>, <<"springdoc-openapi-starter-webmvc-ui">>>>

\* detected_deps: one entry per coordinate (the last declaration's values), in
\* the order the coordinates first appear.
DetectedDeps(existing_deps) ==
    LET first == {i \in DOMAIN existing_deps :
                    \A j \in 1 .. (i - 1) : Coord(existing_deps[j]) # Coord(existing_deps[i])}
        keep == SelectSeq([i \in DOMAIN existing_deps |-> i], LAMBDA i : i \in first)
    IN  [k \in DOMAIN keep |-> Lookup(existing_deps, Coord(existing_deps[keep[k]]))]

\* DependencyManager._validate_user_dependencies: the "deprecated" list (one
\* entry per rule that matches a detected dependency); "incompatible" stays
\* empty.
_validate_user_dependencies(detected_deps) ==
    Concat([i \in DOMAIN detected_deps |->
        LET dep == detected_deps[i] IN
           (IF Coord(dep) \in DOMAIN DEPRECATED_MAPPINGS THEN <<dep>> ELSE <<>>)
        \o (IF KeyContains(dep, "javax", "annotation") THEN <<dep>> ELSE <<>>)
        \o (IF KeyContains(dep, "javax", "validation") THEN <<dep>> ELSE <<>>)
        \o (IF KeyContains(dep, "io", "swagger") THEN <<dep>> ELSE <<>>)])

\* A declared dependency with its coordinate replaced per DEPRECATED_MAPPINGS.
Migrated(d) ==
    IF Coord(d) \in DOMAIN DEPRECATED_MAPPINGS
    THEN [d EXCEPT !.g = DEPRECATED_MAPPINGS[Coord(d)][1],
                   !.a = DEPRECATED_MAPPINGS[Coord(d)][2]]
    ELSE d

\* The messages of fix_result.
MsgNothingToFix == "no deprecated dependency to fix"
MsgFixed == "deprecated dependencies fixed"
MsgFixFailed == "fixing dependencies failed"

\* `"修复" in fix_result["message"]`: 无过时依赖需要修复, 成功修复过时依赖 and
\* 修复依赖失败 all contain the word.
MentionsFix(message) == message \in {MsgNothingToFix, MsgFixed, MsgFixFailed}

\* DependencyManager._fix_maven_deprecated_deps: re.sub is evaluated first, and
\* raises NameError when `re` is not a global of the module; otherwise the
\* content given (read before the automatic insertion) is rewritten and written
\* back.
_fix_maven_deprecated_deps(fs, pom_content) ==
    IF "re" \notin ModuleGlobals
    THEN [raised |-> TRUE, fs |-> fs, wrote |-> {}]
    ELSE [raised |-> FALSE,
          fs |-> [fs EXCEPT ![POM] =
                    [i \in DOMAIN pom_content |->
                        IF pom_content[i].k = "dep"
                        THEN [pom_content[i] EXCEPT !.d = Migrated(@)]
                        ELSE pom_content[i]]],
          wrote |-> {POM}]

\* DependencyManager._fix_gradle_deprecated_deps: as above; the pattern needs
\* the colon before a version.
_fix_gradle_deprecated_deps(fs, gradle_content) ==
    IF "re" \notin ModuleGlobals
    THEN [raised |-> TRUE, fs |-> fs, wrote |-> {}]
    ELSE [raised |-> FALSE,
          fs |-> [fs EXCEPT ![GradleFile(fs)] =
                    [i \in DOMAIN gradle_content |->
                        IF gradle_content[i].k = "decl" /\ gradle_content[i].d.v # <<>>
                        THEN [gradle_content[i] EXCEPT !.d = Migrated(@)]
                        ELSE gradle_content[i]]],
          wrote |-> {GradleFile(fs)}]

\* DependencyManager._auto_fix_deprecated_dependencies: any exception becomes
\* a failure result.
_auto_fix_deprecated_dependencies(fs, build_tool, content) ==
    With(IF build_tool = "maven" THEN _fix_maven_deprecated_deps(fs, content)
         ELSE _fix_gradle_deprecated_deps(fs, content), LAMBDA r :
        IF r.raised
        THEN [fs |-> fs, success |-> FALSE, message |-> MsgFixFailed, wrote |-> {}]
        ELSE [fs |-> r.fs, success |-> TRUE, message |-> MsgFixed, wrote |-> r.wrote])

\* DependencyManager.check_and_fix_dependencies.  kwargs is read for
\* include_swagger, include_lombok and include_mapstruct only.  fix_input is
\* the content (pom_content / gradle_content, read in step 2) that step 5 hands
\* to the fix pass, and whether step 5 calls it.
check_and_fix_dependencies(fs, cat, template_category, database_type, kwargs) ==
    With(analyze_project_dependencies(fs, cat, template_category, database_type,
            kwargs.include_swagger, kwargs.include_lombok, kwargs.include_mapstruct),
         LAMBDA analysis_result :
    With(analysis_result.build_tool, LAMBDA build_tool :
    With(IF build_tool = "maven" THEN POM ELSE GradleFile(fs), LAMBDA name :
    With(IF build_tool = "" THEN <<>> ELSE fs[name], LAMBDA content :
    With(IF build_tool = "maven" THEN _parse_pom_file(fs)
         ELSE IF build_tool = "gradle" THEN _parse_gradle_file(fs, name)
         ELSE <<>>, LAMBDA existing_deps :
    With([deprecated |-> _validate_user_dependencies(DetectedDeps(existing_deps)),
          incompatible |-> <<>>], LAMBDA validation_result :
    With(auto_add_missing_dependencies(fs, analysis_result.comparison_results),
         LAMBDA auto_add_result :
    With(IF validation_result.deprecated # <<>> /\ content # <<>>
         THEN _auto_fix_deprecated_dependencies(auto_add_result.fs, build_tool, content)
         ELSE [fs |-> auto_add_result.fs, success |-> TRUE,
               message |-> MsgNothingToFix, wrote |-> {}], LAMBDA fix_result :
        [fs |-> fix_result.fs,
         catalog |-> analysis_result.catalog,
         wrote |-> auto_add_result.wrote \cup fix_result.wrote,
         analysis_result |-> analysis_result,
         validation_result |-> validation_result,
         auto_add_result |-> [success |-> auto_add_result.success,
                              added_count |-> auto_add_result.added_count,
                              inserted |-> auto_add_result.inserted],
         fix_result |-> [success |-> fix_result.success, message |-> fix_result.message],
         fix_input |-> [called |-> validation_result.deprecated # <<>> /\ content # <<>>,
                        content |-> content],
         summary |->
            [build_tool |-> build_tool,
             missing_dependencies_added |->
                IF auto_add_result.added_count = -1 THEN 0
                ELSE auto_add_result.added_count,
             deprecated_dependencies_fixed |->
                IF fix_result.success /\ MentionsFix(fix_result.message) THEN 1 ELSE 0,
             validation_warnings |->
                Len(validation_result.deprecated)
                    + Len(validation_result.incompatible)]]))))))))

\* The health report as it would be if it inserted what is missing, as reconcile
\* does.
get_dependency_health_report_fixing(fs, cat) ==
    With(analyze_project_dependencies(fs, cat, "MybatisPlus-Mixed", "mysql",
                                      TRUE, TRUE, TRUE), LAMBDA analysis_result :
    With(analysis_result.comparison_results, LAMBDA comparison_results :
        [fs |-> auto_add_missing_dependencies(fs, comparison_results).fs,
         catalog |-> analysis_result.catalog,
         comparison_results |-> comparison_results,
         report |->
            [build_tool |-> analysis_result.build_tool,
             missing_required |-> analysis_result.summary.missing,
             outdated |-> analysis_result.summary.outdated,
             deprecated |-> analysis_result.summary.deprecated,
             health_score |-> analysis_result.summary.health_score]]))

\* DependencyManager.get_dependency_health_report: analysis under the fixed
\* profile (MybatisPlus-Mixed, mysql, every include_* at its default True).
get_dependency_health_report(fs, cat) ==
    With(analyze_project_dependencies(fs, cat, "MybatisPlus-Mixed", "mysql",
                                      TRUE, TRUE, TRUE), LAMBDA analysis_result :
    With(analysis_result.comparison_results, LAMBDA comparison_results :
    With(Len(comparison_results), LAMBDA total_requirements :
    With(Count(comparison_results, LAMBDA c : c.status = "missing"), LAMBDA missing_count :
    With(Count(comparison_results, LAMBDA c : c.status = "outdated"), LAMBDA outdated_count :
    With(Count(comparison_results, LAMBDA c : c.status = "deprecated"),
         LAMBDA deprecated_count :
        [fs |-> fs,
         catalog |-> analysis_result.catalog,
         comparison_results |-> comparison_results,
         report |->
            [build_tool |-> analysis_result.build_tool,
             total_dependencies |-> total_requirements,
             found_dependencies |->
                total_requirements - missing_count - outdated_count - deprecated_count,
             missing_required |-> missing_count,
             outdated |-> outdated_count,
             deprecated |-> deprecated_count,
             health_score |->
                Max({0, 100 - (missing_count * 10 + outdated_count * 5
                                 + deprecated_count * 5)})]]))))))

(***************************************************************************)
(* auto_dependency_manager.py: the safe mutator.                           *)
(***************************************************************************)
\* AutoDependencyManager._parse_existing_dependencies_from_content: the
\* coordinates of the <dependency> elements found in the text by pattern,
\* whatever the document around them looks like.
_parse_existing_dependencies_from_content(pom_content) ==
    {Coord(pom_content[i].d) : i \in {j \in DOMAIN pom_content : pom_content[j].k = "dep"}}

\* The keywords the mutator's pattern accepts.
MutatorGradleKeywords ==
    {"implementation", "api", "compileOnly", "runtimeOnly", "testImplementation"}

\* The scan as it would be with the keywords of the analyzer's pattern, which
\* has no compileOnly and no runtimeOnly.
_get_existing_gradle_dependencies_analyzer_keywords(content) ==
    {Coord(content[i].d) :
        i \in {j \in DOMAIN content :
                 /\ content[j].k = "decl"
                 /\ content[j].x = "groovy"
                 /\ content[j].n \in AnalyzerGradleKeywords
                 /\ content[j].d.v # <<>>}}

\* AutoDependencyManager._get_existing_gradle_dependencies, on declarations
\* that carry a version.
_get_existing_gradle_dependencies(content) ==
    {Coord(content[i].d) :
        i \in {j \in DOMAIN content :
                 /\ content[j].k = "decl"
                 /\ content[j].x = "groovy"
                 /\ content[j].n \in MutatorGradleKeywords
                 /\ content[j].d.v # <<>>}}

\* The document without the tokens at the positions in drop.
Without(doc, drop) ==
    LET keep == SelectSeq([i \in DOMAIN doc |-> i], LAMBDA i : i \notin drop)
    IN  [k \in DOMAIN keep |-> doc[keep[k]]]

\* AutoDependencyManager._remove_duplicate_dependency_sections: the comment +
\* <dependency> pairs after the first dependencies block are moved into it.
_remove_duplicate_dependency_sections(content) ==
    LET opens == {i \in DOMAIN content : content[i] = OpenTag("dependencies")}
        closes == IF opens = {} THEN {}
                  ELSE {j \in DOMAIN content :
                          j > Min(opens) /\ content[j] = CloseTag("dependencies")}
    IN  IF closes = {} THEN content
        ELSE LET main_deps_end == Min(closes)
                 firsts == {i \in DOMAIN content :
                              /\ i > main_deps_end
                              /\ i < Len(content)
                              /\ content[i].k \in {"marker", "desc"}
                              /\ content[i + 1].k = "dep"}
                 orphan == firsts \cup {i + 1 : i \in firsts}
                 moved == SelectSeq([i \in DOMAIN content |-> i], LAMBDA i : i \in orphan)
             IN  IF firsts = {} THEN content
                 ELSE SubSeq(content, 1, main_deps_end - 1)
                      \o [k \in DOMAIN moved |-> content[moved[k]]]
                      \o Without(SubSeq(content, main_deps_end, Len(content)),
                                 {i - main_deps_end + 1 : i \in orphan})

\* AutoDependencyManager._fix_common_xml_errors: lines holding only a dangling
\* "</" are deleted, a run of marker comments becomes one, duplicate sections
\* are merged.
_fix_common_xml_errors(content) ==
    LET no_frag == Without(content, {i \in DOMAIN content : content[i].k = "frag"})
        no_rep == Without(no_frag, {i \in DOMAIN no_frag :
                                      /\ i > 1
                                      /\ no_frag[i] = Marker
                                      /\ no_frag[i - 1] = Marker})
    IN  _remove_duplicate_dependency_sections(no_rep)

\* AutoDependencyManager._has_xml_syntax_errors: a dangling fragment at the end
\* of a line, or a document ElementTree does not parse.
_has_xml_syntax_errors(content) ==
    \/ \E i \in DOMAIN content : content[i].k = "frag"
    \/ ~WellFormed(content)

\* AutoDependencyManager._generate_dependencies_xml
_generate_dependencies_xml(dependencies) == MavenEntries(dependencies)

\* AutoDependencyManager._generate_dependencies_block
_generate_dependencies_block(dependencies) ==
    <<OpenTag("dependencies"), Marker>> \o MavenEntries(dependencies)
        \o <<CloseTag("dependencies")>>

\* AutoDependencyManager._insert_dependencies_string_based: raised, or the new
\* content.
_insert_dependencies_string_based(pom_content, dependencies) ==
    With(_fix_common_xml_errors(pom_content), LAMBDA fixed :
    With({i \in DOMAIN fixed : fixed[i] = CloseTag("dependencies")}, LAMBDA ends :
    With({i \in DOMAIN fixed : fixed[i] = OpenTag("dependencies")}, LAMBDA starts :
    With({i \in DOMAIN fixed : fixed[i].k = "dep"}, LAMBDA last_dep :
    With({i \in DOMAIN fixed : fixed[i] = CloseTag("project")}, LAMBDA project_end :
    With(<<Marker>> \o _generate_dependencies_xml(dependencies)
            \o <<CloseTag("dependencies")>>, LAMBDA closed :
        IF _has_xml_syntax_errors(fixed)
        THEN [raised |-> TRUE, content |-> pom_content]
        ELSE IF ends # {}
        THEN [raised |-> FALSE,
              content |-> InsertAt(fixed, Min(ends),
                                   <<Marker>> \o _generate_dependencies_xml(dependencies))]
        ELSE IF starts # {}
        THEN [raised |-> FALSE,
              content |-> IF last_dep # {}
                          THEN InsertAt(fixed, Max(last_dep) + 1, closed)
                          ELSE InsertAt(fixed, Min(starts) + 1, closed)]
        ELSE IF project_end # {}
        THEN [raised |-> FALSE,
              content |-> InsertAt(fixed, Min(project_end),
                                   _generate_dependencies_block(dependencies))]
        ELSE [raised |-> TRUE, content |-> pom_content]))))))

\* scope_mapping.get(dep.scope, "implementation")
scope_mapping(scope) ==
    CASE scope = "compile" -> "implementation"
      [] scope = "provided" -> "compileOnly"
      [] scope = "test" -> "testImplementation"
      [] scope = "runtime" -> "runtimeOnly"
      [] OTHER -> "implementation"

\* AutoDependencyManager._insert_gradle_dependencies
_insert_gradle_dependencies(content, dependencies) ==
    LET opens == {i \in DOMAIN content : content[i] = GOpen}
        closes == IF opens = {} THEN {}
                  ELSE {j \in DOMAIN content : j > Min(opens) /\ content[j] = GClose}
        lines == Concat([i \in DOMAIN dependencies |->
                    <<GComment(Written(dependencies[i])),
                      DeclTok(scope_mapping(dependencies[i].scope), "groovy",
                              Written(dependencies[i]))>>])
    IN  IF closes # {} THEN InsertAt(content, Min(closes), lines)
        ELSE content \o <<GOpen>> \o lines \o <<GClose>>

\* AutoDependencyManager._create_backup: a copy named after the file and the
\* time to the second; a copy of that name is overwritten.
_create_backup(bk, name, now, content) ==
    {b \in bk : ~(b.name = name /\ b.ts = now)}
        \cup {[name |-> name, ts |-> now, content |-> content]}

\* The steps as they would be with the backup taken after the new content is
\* in place: read, modify, write, backup.
AddToManifestBackupLast(fs, bk, now, name, dependencies, create_backup, dry_run) ==
    With(fs[name], LAMBDA content :
    With(IF name = POM THEN _parse_existing_dependencies_from_content(content)
         ELSE _get_existing_gradle_dependencies(content), LAMBDA existing_deps :
    With(SelectSeq(dependencies, LAMBDA dep : Coord(dep) \notin existing_deps),
         LAMBDA added_dependencies :
    With(SelectSeq(dependencies, LAMBDA dep : Coord(dep) \in existing_deps),
         LAMBDA skipped_dependencies :
    With(IF name = POM
         THEN _insert_dependencies_string_based(content, added_dependencies)
         ELSE [raised |-> FALSE,
               content |-> _insert_gradle_dependencies(content, added_dependencies)],
         LAMBDA ins :
    With(IF create_backup THEN _create_backup(bk, name, now, ins.content) ELSE bk, LAMBDA bk2 :
        IF added_dependencies = <<>> \/ dry_run
        THEN [fs |-> fs, bk |-> bk, success |-> TRUE,
              added_dependencies |-> added_dependencies,
              skipped_dependencies |-> skipped_dependencies,
              backup_file |-> FALSE, wrote |-> {}]
        ELSE IF ins.raised
        THEN [fs |-> fs, bk |-> bk2, success |-> FALSE,
              added_dependencies |-> <<>>, skipped_dependencies |-> <<>>,
              backup_file |-> create_backup, wrote |-> {}]
        ELSE [fs |-> [fs EXCEPT ![name] = ins.content], bk |-> bk2, success |-> TRUE,
              added_dependencies |-> added_dependencies,
              skipped_dependencies |-> skipped_dependencies,
              backup_file |-> create_backup, wrote |-> {name}]))))))

\* AutoDependencyManager._add_maven_dependencies /
\* AutoDependencyManager._add_gradle_dependencies (the steps are the same; the
\* duplicate test and the insertion are the build tool's).
AddToManifest(fs, bk, now, name, dependencies, create_backup, dry_run) ==
    With(fs[name], LAMBDA content :
    With(IF name = POM THEN _parse_existing_dependencies_from_content(content)
         ELSE _get_existing_gradle_dependencies(content), LAMBDA existing_deps :
    With(SelectSeq(dependencies, LAMBDA dep : Coord(dep) \notin existing_deps),
         LAMBDA added_dependencies :
    With(SelectSeq(dependencies, LAMBDA dep : Coord(dep) \in existing_deps),
         LAMBDA skipped_dependencies :
    With(IF create_backup THEN _create_backup(bk, name, now, content) ELSE bk, LAMBDA bk2 :
    With(IF name = POM
         THEN _insert_dependencies_string_based(content, added_dependencies)
         ELSE [raised |-> FALSE,
               content |-> _insert_gradle_dependencies(content, added_dependencies)],
         LAMBDA ins :
        IF added_dependencies = <<>> \/ dry_run
        THEN [fs |-> fs, bk |-> bk, success |-> TRUE,
              added_dependencies |-> added_dependencies,
              skipped_dependencies |-> skipped_dependencies,
              backup_file |-> FALSE, wrote |-> {}]
        ELSE IF ins.raised
        THEN [fs |-> fs, bk |-> bk2, success |-> FALSE,
              added_dependencies |-> <<>>, skipped_dependencies |-> <<>>,
              backup_file |-> create_backup, wrote |-> {}]
        ELSE [fs |-> [fs EXCEPT ![name] = ins.content], bk |-> bk2, success |-> TRUE,
              added_dependencies |-> added_dependencies,
              skipped_dependencies |-> skipped_dependencies,
              backup_file |-> create_backup, wrote |-> {name}]))))))

\* AutoDependencyManager.add_dependencies_to_project
add_dependencies_to_project(fs, bk, now, dependencies, create_backup, dry_run) ==
    LET build_tool == _detect_build_tool(fs)
    IN  IF build_tool = ""
        THEN [fs |-> fs, bk |-> bk, success |-> FALSE,
              added_dependencies |-> <<>>, skipped_dependencies |-> <<>>,
              backup_file |-> FALSE, wrote |-> {}]
        ELSE AddToManifest(fs, bk, now,
                           IF build_tool = "maven" THEN POM ELSE GradleFile(fs),
                           dependencies, create_backup, dry_run)

\* DependencyManager.generate_migration_guide: the detected dependencies of the
\* build file are validated and the "deprecated" list is returned with its
\* length.
generate_migration_guide(fs) ==
    With(_detect_build_tool(fs), LAMBDA build_tool :
        IF build_tool = ""
        THEN [success |-> FALSE, build_tool |-> "",
              migration_suggestions |-> <<>>, total_suggestions |-> 0]
        ELSE
    With(IF build_tool = "maven" THEN _parse_pom_file(fs)
         ELSE _parse_gradle_file(fs, GradleFile(fs)), LAMBDA existing_deps :
    With(_validate_user_dependencies(DetectedDeps(existing_deps)),
         LAMBDA migration_suggestions :
        [success |-> TRUE, build_tool |-> build_tool,
         migration_suggestions |-> migration_suggestions,
         total_suggestions |-> Len(migration_suggestions)])))

(***************************************************************************)
(* The projects the engine is run on.                                      *)
(***************************************************************************)
\* Dependencies a project may declare before the engine first runs.
InitDeps ==
    <<ExistingDependency(<<"io", "swagger">>, <<"swagger-annotations">>, <<1, 6, 14>>, "compile"),
      ExistingDependency(<<"org", "springdoc">>, <<"springdoc-openapi-starter-webmvc-ui">>, <<2, 7, 0>>, "compile"),
      ExistingDependency(<<"javax", "annotation">>, <<"javax", "annotation-api">>, <<1, 3, 2>>, "compile"),
      ExistingDependency(<<"org", "projectlombok">>, <<"lombok">>, <<1, 18, 30>>, "compile"),
      ExistingDependency(<<"io", "springfox">>, <<"springfox-swagger2">>, <<2, 9, 2>>, "compile")>>

\* The declared dependency lists: at most MaxInitDeps of InitDeps, in order.
Declared ==
    LET picks == {S \in SUBSET (DOMAIN InitDeps) : Cardinality(S) <= MaxInitDeps}
    IN  {[k \in 1 .. Cardinality(S) |->
            InitDeps[CHOOSE i \in S : Cardinality({j \in S : j < i}) = k - 1]] : S \in picks}

\* The framework versions a project may declare (<<>>: none).
BootVersions == {<<>>, <<2, 7, 0>>, <<3, 2, 0>>}

BootDecl(v) == IF v = <<>> THEN <<>> ELSE <<BootTok(v)>>

\* A pom.xml document: shape "closed" is well-formed with a dependencies
\* block, "none" has no block, "unclosed" lacks the block's end tag,
\* "dangling" has a "</" line in its place, "stray" has a "</" line after a
\* complete block.
Pom(ns, v, shape, deps) ==
    <<OpenRoot(ns)>> \o BootDecl(v)
        \o (IF shape = "none" THEN <<>>
            ELSE <<OpenTag("dependencies")>> \o [i \in DOMAIN deps |-> DepTok(deps[i])])
        \o (CASE shape = "closed" -> <<CloseTag("dependencies")>>
              [] shape = "dangling" -> <<Frag>>
              [] shape = "stray" -> <<CloseTag("dependencies"), Frag>>
              [] OTHER -> <<>>)
        \o <<CloseTag("project")>>

\* A Gradle build file with a dependencies block; form is "groovy" in
\* build.gradle and "kotlin" in build.gradle.kts.
Gradle(form, v, deps) ==
    BootDecl(v) \o <<GOpen>>
        \o [i \in DOMAIN deps |->
              DeclTok(IF deps[i].s = "test" THEN "testImplementation" ELSE "implementation",
                      form, deps[i])]
        \o <<GClose>>

\* What a project declares that has every requirement of the health report's
\* profile (MybatisPlus-Mixed, mysql, every include_* True) not tagged deprecated,
\* each at the catalog's version.
CompleteModernDeps ==
    LET reqs == RequirementList(analyze_requirements(FreshCatalog, "MybatisPlus-Mixed",
                                                     "mysql", TRUE, TRUE, TRUE, <<>>))
        modern == SelectSeq(reqs, LAMBDA r : r.status # "deprecated")
    IN  [i \in DOMAIN modern |-> Written(modern[i])]

NoFiles == [f \in FileNames |-> NoFile]

\* The project directories reconciled: no build file; Maven projects in the
\* Maven namespace (complete or with the block's end tag missing) and
\* without a namespace; a Maven project that declares every modern requirement;
\* Gradle projects in both dialects.
Projects ==
    {NoFiles}
    \cup {[NoFiles EXCEPT ![POM] = Pom(TRUE, v, shape, deps)] :
            v \in BootVersions, shape \in {"closed", "unclosed"}, deps \in Declared}
    \cup {[NoFiles EXCEPT ![POM] = Pom(TRUE, v, "none", <<>>)] : v \in BootVersions}
    \cup {[NoFiles EXCEPT ![POM] = Pom(FALSE, <<>>, "closed", deps)] : deps \in Declared}
    \cup {[NoFiles EXCEPT ![POM] = Pom(TRUE, <<>>, "closed", CompleteModernDeps)]}
    \cup {[NoFiles EXCEPT ![GRADLE] = Gradle("groovy", v, deps)] :
            v \in {<<>>, <<2, 7, 0>>}, deps \in Declared}
    \cup {[NoFiles EXCEPT ![GRADLE] = BootDecl(<<3, 2, 0>>)]}
    \cup {[NoFiles EXCEPT ![KTS] = Gradle("kotlin", <<>>, deps)] : deps \in Declared}

\* The generation profiles the callers pass.
Profiles ==
    [template_category : {"Default", "MybatisPlus", "MybatisPlus-Mixed"},
     database_type : {"mysql"},
     include_swagger : {TRUE},
     include_lombok : {TRUE},
     include_mapstruct : {TRUE}]

\* The result record of a call; every action fills the fields it has.
NoResult ==
    [op |-> "none", dry_run |-> FALSE, create_backup |-> FALSE,
     build_tool |-> "", args |-> <<>>, reqs |-> <<>>,
     required |-> <<>>, comparisons |-> <<>>, health_score |-> -1,
     missing |-> 0, outdated |-> 0, deprecated |-> 0,
     add_success |-> FALSE, added |-> 0, inserted |-> <<>>, skipped |-> <<>>,
     fix_success |-> FALSE, fixed |-> 0, warnings |-> 0,
     backup_file |-> FALSE, wrote |-> {}, is_outdated |-> FALSE,
     write_failed |-> FALSE, recommendations |-> NoRecommendations,
     fix_called |-> FALSE, fix_content |-> <<>>,
     success |-> FALSE, migration_suggestions |-> <<>>, total_suggestions |-> 0]

\* No file grows beyond MaxDocLen tokens.
Fits(fs) == \A f \in FileNames : Len(fs[f]) <= MaxDocLen

Init ==
    /\ files \in Projects
    /\ backups = {}
    /\ clock = 0
    /\ catalog = FreshCatalog
    /\ profile \in Profiles
    /\ last = NoResult

\* PomAnalyzer.analyze_project_dependencies, called with the project's profile.
Analyze ==
    \E r \in {analyze_project_dependencies(files, catalog, profile.template_category,
                 profile.database_type, profile.include_swagger,
                 profile.include_lombok, profile.include_mapstruct)} :
        /\ catalog' = r.catalog
        /\ last' = [NoResult EXCEPT
                       !.op = "analyze",
                       !.build_tool = r.build_tool,
                       !.required = r.requirements.required,
                       !.comparisons = r.comparison_results,
                       !.recommendations = r.recommendations,
                       !.health_score = r.summary.health_score,
                       !.missing = r.summary.missing,
                       !.outdated = r.summary.outdated,
                       !.deprecated = r.summary.deprecated]
        /\ UNCHANGED <<files, backups, clock, profile>>

\* DependencyManager.check_and_fix_dependencies, called with the project's
\* profile and the given options.
Reconcile(dry_run, create_backup) ==
    LET kwargs == [include_swagger |-> profile.include_swagger,
                   include_lombok |-> profile.include_lombok,
                   include_mapstruct |-> profile.include_mapstruct,
                   dry_run |-> dry_run, create_backup |-> create_backup]
    IN  \E r \in {check_and_fix_dependencies(files, catalog, profile.template_category,
                                              profile.database_type, kwargs)} :
        /\ Fits(r.fs)
        /\ files' = r.fs
        /\ catalog' = r.catalog
        /\ last' = [NoResult EXCEPT
                       !.op = "reconcile",
                       !.dry_run = dry_run,
                       !.create_backup = create_backup,
                       !.build_tool = r.summary.build_tool,
                       !.required = r.analysis_result.requirements.required,
                       !.comparisons = r.analysis_result.comparison_results,
                       !.recommendations = r.analysis_result.recommendations,
                       !.health_score = r.analysis_result.summary.health_score,
                       !.missing = r.analysis_result.summary.missing,
                       !.outdated = r.analysis_result.summary.outdated,
                       !.deprecated = r.analysis_result.summary.deprecated,
                       !.add_success = r.auto_add_result.success,
                       !.added = r.summary.missing_dependencies_added,
                       !.inserted = r.auto_add_result.inserted,
                       !.fix_success = r.fix_result.success,
                       !.fix_called = r.fix_input.called,
                       !.fix_content = r.fix_input.content,
                       !.fixed = r.summary.deprecated_dependencies_fixed,
                       !.warnings = r.summary.validation_warnings,
                       !.wrote = r.wrote]
        /\ UNCHANGED <<backups, clock, profile>>

\* DependencyManager.get_dependency_health_report
HealthReport ==
    \E r \in {get_dependency_health_report(files, catalog)} :
        /\ files' = r.fs
        /\ catalog' = r.catalog
        /\ last' = [NoResult EXCEPT
                       !.op = "health",
                       !.build_tool = r.report.build_tool,
                       !.comparisons = r.comparison_results,
                       !.health_score = r.report.health_score,
                       !.missing = r.report.missing_required,
                       !.outdated = r.report.outdated,
                       !.deprecated = r.report.deprecated]
        /\ UNCHANGED <<backups, clock, profile>>

\* DependencyManager.generate_migration_guide
MigrationGuide ==
    \E r \in {generate_migration_guide(files)} :
        /\ last' = [NoResult EXCEPT
                       !.op = "guide",
                       !.success = r.success,
                       !.build_tool = r.build_tool,
                       !.migration_suggestions = r.migration_suggestions,
                       !.total_suggestions = r.total_suggestions]
        /\ UNCHANGED <<files, backups, clock, catalog, profile>>

Next ==
    \/ Analyze
    \/ \E dry_run \in BOOLEAN : Reconcile(dry_run, TRUE)
    \/ HealthReport
    \/ MigrationGuide

Spec == Init /\ [][Next]_vars

(***************************************************************************)
(* The requirement catalog on its own.                                     *)
(***************************************************************************)
\* The arguments analyze_requirements is called with: template category,
\* database type, include_swagger, include_lombok, include_mapstruct,
\* framework version (<<>>: None).
RequirementArgs ==
    {"Default", "MybatisPlus", "MybatisPlus-Mixed", "JPA"}
        \X {"mysql", "PostgreSQL", "mysql-legacy", "oracle"}
        \X BOOLEAN \X BOOLEAN \X {TRUE}
        \X {<<>>, <<2, 7, 0>>, <<3, 1, 5>>, <<3, 2, 0>>, <<3, 5, 5>>, <<4, 0, 0>>}

InitCatalog ==
    /\ files = NoFiles
    /\ backups = {}
    /\ clock = 0
    /\ catalog = FreshCatalog
    /\ profile \in {pr \in Profiles : pr.template_category = "Default"}
    /\ last = NoResult

\* DependencyRequirements.analyze_requirements on the long-lived instance.
AnalyzeRequirements(a) ==
    \E r \in {analyze_requirements(catalog, a[1], a[2], a[3], a[4], a[5], a[6])} :
        /\ catalog' = r.catalog
        /\ last' = [NoResult EXCEPT !.op = "requirements", !.args = a,
                                    !.required = r.required,
                                    !.reqs = RequirementList(r)]
        /\ UNCHANGED <<files, backups, clock, profile>>

NextCatalog == \E a \in RequirementArgs : AnalyzeRequirements(a)

SpecCatalog == InitCatalog /\ [][NextCatalog]_vars

(***************************************************************************)
(* The version comparator on its own.                                      *)
(***************************************************************************)
\* The parts a version is made of; -1 is a part that is not all digits
\* ("Final", "RELEASE").
VersionParts == {0, 1, 2, 3, 10, -1}

\* The existing versions compared: every version of 1 .. MaxVersionParts parts.
CurrentVersions == UNION {[1 .. k -> VersionParts] : k \in 1 .. MaxVersionParts}

\* The required versions compared.
RequiredVersions ==
    {<<1, 10, 0>>, <<1, 2>>, <<2, 0, 1, -1>>, <<3>>, <<1, 2, 3>>, <<0, -1, 10>>}

InitVersion ==
    /\ files = NoFiles
    /\ backups = {}
    /\ clock = 0
    /\ catalog = FreshCatalog
    /\ profile \in {pr \in Profiles : pr.template_category = "Default"}
    /\ \E current \in CurrentVersions, required \in RequiredVersions :
          last = [NoResult EXCEPT !.args = <<current, required>>]

\* PomAnalyzer._is_version_outdated(current, required) on the pair at hand.
IsVersionOutdated ==
    /\ last.op = "none"
    /\ last' = [last EXCEPT !.op = "version",
                            !.is_outdated = _is_version_outdated(last.args[1], last.args[2])]
    /\ UNCHANGED <<files, backups, clock, catalog, profile>>

NextVersion == IsVersionOutdated

SpecVersion == InitVersion /\ [][NextVersion]_vars

(***************************************************************************)
(* The safe mutator on its own.                                            *)
(***************************************************************************)
\* The dependency lists the mutator is asked to add.
Requested ==
    {<<FreshCatalog["lombok"]>>,
     <<FreshCatalog["lombok"], FreshCatalog["mapstruct-processor"]>>}

\* The projects the mutator is run on: Maven projects of every shape, and
\* Gradle projects.
MutatorProjects ==
    {NoFiles}
    \cup {[NoFiles EXCEPT ![POM] = Pom(TRUE, <<>>, shape, deps)] :
            shape \in {"closed", "unclosed", "dangling", "stray"}, deps \in Declared}
    \cup {[NoFiles EXCEPT ![POM] = Pom(TRUE, <<>>, "none", <<>>)]}
    \cup {[NoFiles EXCEPT ![GRADLE] = Gradle("groovy", <<>>, deps)] : deps \in Declared}

InitMutator ==
    /\ files \in MutatorProjects
    /\ backups = {}
    /\ clock = 0
    /\ catalog = FreshCatalog
    /\ profile \in {pr \in Profiles : pr.template_category = "MybatisPlus"}
    /\ last = NoResult

\* AutoDependencyManager.add_dependencies_to_project.  A run is followed up to
\* its first failed write.
AddDependencies(dependencies, create_backup, dry_run) ==
    \E r \in {add_dependencies_to_project(files, backups, clock, dependencies,
                                          create_backup, dry_run)} :
        /\ ~last.write_failed
        /\ Fits(r.fs)
        /\ files' = r.fs
        /\ backups' = r.bk
        /\ last' = [NoResult EXCEPT
                       !.op = "add",
                       !.dry_run = dry_run,
                       !.create_backup = create_backup,
                       !.build_tool = _detect_build_tool(files),
                       !.args = dependencies,
                       !.add_success = r.success,
                       !.added = Len(r.added_dependencies),
                       !.inserted = r.added_dependencies,
                       !.skipped = r.skipped_dependencies,
                       !.backup_file = r.backup_file,
                       !.wrote = r.wrote]
        /\ UNCHANGED <<clock, catalog, profile>>

\* AutoDependencyManager.add_dependencies_to_project when the write of step 8
\* fails with an I/O error: open(file, 'w') has truncated the file, f.write has
\* put the first `written` tokens of the new content on disk, and the exception
\* handler returns a failure result.
AddDependenciesWriteFailed(dependencies, create_backup) ==
    \E r \in {add_dependencies_to_project(files, backups, clock, dependencies,
                                          create_backup, FALSE)} :
        /\ ~last.write_failed
        /\ Fits(r.fs)
        /\ r.wrote # {}
        /\ \E name \in r.wrote :
              \E written \in 0 .. (Len(r.fs[name]) - 1) :
                 files' = [files EXCEPT ![name] = SubSeq(r.fs[name], 1, written)]
        /\ backups' = r.bk
        /\ last' = [NoResult EXCEPT
                       !.op = "add",
                       !.create_backup = create_backup,
                       !.build_tool = _detect_build_tool(files),
                       !.args = dependencies,
                       !.backup_file = r.backup_file,
                       !.wrote = r.wrote,
                       !.write_failed = TRUE]
        /\ UNCHANGED <<clock, catalog, profile>>

\* A second passes.
Tick ==
    /\ clock < MaxClock
    /\ clock' = clock + 1
    /\ UNCHANGED <<files, backups, catalog, profile, last>>

NextMutator ==
    \/ \E dependencies \in Requested, create_backup \in BOOLEAN, dry_run \in BOOLEAN :
            AddDependencies(dependencies, create_backup, dry_run)
    \/ \E dependencies \in Requested, create_backup \in BOOLEAN :
            AddDependenciesWriteFailed(dependencies, create_backup)
    \/ Tick

SpecMutator == InitMutator /\ [][NextMutator]_vars

(***************************************************************************)
(* Properties.                                                             *)
(***************************************************************************)
\* The build file the engine works on ("" when there is none).
BuildFile(fs) ==
    IF _detect_build_tool(fs) = "maven" THEN POM
    ELSE IF _detect_build_tool(fs) = "gradle" THEN GradleFile(fs)
    ELSE ""

\* The dependencies declared in the text of the build file, whether a parser of
\* the engine sees them or not.
DeclaredIn(fs) ==
    IF BuildFile(fs) = "" THEN {}
    ELSE {fs[BuildFile(fs)][i].d :
            i \in {j \in DOMAIN fs[BuildFile(fs)] : fs[BuildFile(fs)][j].k \in {"dep", "decl"}}}

DeclaredCoords(fs) == {Coord(d) : d \in DeclaredIn(fs)}

LegacyApiDoc(g) == g \in {<<"io", "swagger">>, <<"io", "springfox">>}
ModernApiDoc(g) == g = <<"org", "springdoc">>

\* The score of the documented formula over a comparison list.
FormulaScore(comparisons) ==
    Max({0, 100 - 10 * Count(comparisons, LAMBDA c : c.status = "missing")
               - 5 * Count(comparisons, LAMBDA c : c.status = "outdated")
               - 5 * Count(comparisons, LAMBDA c : c.status = "deprecated")})

\* C1: when reconcile has just run without error and runs again with the same
\* arguments, the second run adds no dependency, leaves the manifest as it is and
\* reports the health score of the first run.
C1_ReconcileIdempotent ==
    [][(/\ last.op = "reconcile" /\ last.add_success /\ last.fix_success
        /\ last'.op = "reconcile"
        /\ last'.dry_run = last.dry_run /\ last'.create_backup = last.create_backup)
       => (/\ last'.added = 0
           /\ files' = files
           /\ last'.health_score = last.health_score)]_vars

\* C2: a reconcile run on a manifest that declares a legacy API-doc coordinate
\* (io.swagger, io.springfox) inserts no org.springdoc coordinate, and a run on a
\* manifest that declares an org.springdoc coordinate inserts no legacy one,
\* for Maven and Gradle and any framework version.
C2_StackConsistent ==
    [][last'.op = "reconcile"
       => (/\ (\E d \in DeclaredIn(files) : LegacyApiDoc(d.g))
                => \A i \in DOMAIN last'.inserted : ~ModernApiDoc(last'.inserted[i].g)
           /\ (\E d \in DeclaredIn(files) : ModernApiDoc(d.g))
                => \A i \in DOMAIN last'.inserted : ~LegacyApiDoc(last'.inserted[i].g))]_vars

\* The comparisons of the last analysis for a coordinate.
ComparisonsFor(coord) ==
    SelectSeq(last.comparisons, LAMBDA c : Coord(c.requirement) = coord)

\* A requirement absent from the manifest has exactly one comparison, and it
\* says "missing".
CoveredAsMissing(req) ==
    Coord(req) \notin DeclaredCoords(files)
        => /\ Len(ComparisonsFor(Coord(req))) = 1
           /\ ComparisonsFor(Coord(req))[1].status = "missing"

\* C3 (as stated): after an analysis, every requirement of the profile's
\* required set that the manifest does not declare has exactly one comparison,
\* with status missing, for each of the three template categories.
C3_CoverageAll ==
    last.op = "analyze"
        => \A i \in DOMAIN last.required : CoveredAsMissing(last.required[i])

\* C3 (amended): the same for every requirement of the required set other than
\* org.mybatis:mybatis, which the analysis takes out of the comparison list; that
\* requirement has no comparison at all.
C3_CoverageButMybatis ==
    last.op = "analyze"
        => \A i \in DOMAIN last.required :
              IF Coord(last.required[i]) = MybatisCoord
              THEN ComparisonsFor(MybatisCoord) = <<>>
              ELSE CoveredAsMissing(last.required[i])

\* C3 witness: an analysis under the Default template of a manifest that
\* declares something, with org.mybatis:mybatis required and absent, and another
\* required coordinate absent and reported missing.
C3_Witness ==
    /\ last.op = "analyze"
    /\ profile.template_category = "Default"
    /\ DeclaredCoords(files) # {}
    /\ \E i \in DOMAIN last.required : Coord(last.required[i]) = MybatisCoord
    /\ MybatisCoord \notin DeclaredCoords(files)
    /\ \E i \in DOMAIN last.required :
          /\ Coord(last.required[i]) # MybatisCoord
          /\ Coord(last.required[i]) \notin DeclaredCoords(files)
          /\ Len(ComparisonsFor(Coord(last.required[i]))) = 1

\* C4: a call of analyze_requirements on the long-lived instance returns the
\* list the same call returns on a freshly constructed instance, whatever calls
\* came before.
C4_CatalogDeterministic ==
    last.op = "requirements"
        => last.reqs = RequirementList(analyze_requirements(FreshCatalog,
                            last.args[1], last.args[2], last.args[3],
                            last.args[4], last.args[5], last.args[6]))

\* The dependencies block of the document is opened and never closed.
Unclosed(doc) ==
    /\ \E i \in DOMAIN doc : doc[i] = OpenTag("dependencies")
    /\ \A i \in DOMAIN doc : doc[i] # CloseTag("dependencies")

\* C5: when the mutator is asked (not as a dry run) to add dependencies that a
\* Maven manifest with an unclosed <dependencies> block does not declare, it
\* succeeds, the manifest then has exactly one </dependencies>, declares the
\* new entries and is well-formed.
C5_UnclosedRepaired ==
    [][(/\ last'.op = "add" /\ ~last'.dry_run
        /\ Exists(files, POM) /\ Unclosed(files[POM])
        /\ \E i \in DOMAIN last'.args : Coord(last'.args[i]) \notin DeclaredCoords(files))
       => (/\ last'.add_success
           /\ Count(files'[POM], LAMBDA t : t = CloseTag("dependencies")) = 1
           /\ \A i \in DOMAIN last'.args : Coord(last'.args[i]) \in DeclaredCoords(files')
           /\ WellFormed(files'[POM]))]_vars

\* The manifest has a defect that is neither parsed nor repaired.
Corrupt(fs) ==
    /\ Exists(fs, POM)
    /\ ~WellFormed(fs[POM])
    /\ _has_xml_syntax_errors(_fix_common_xml_errors(fs[POM]))

\* C6: reconcile on a corrupt manifest leaves the file as it is, reports the
\* failure of the insertion step, inserts nothing, and still returns the
\* comparisons.
C6_CorruptNotWritten ==
    [][(last'.op = "reconcile" /\ Corrupt(files))
       => (/\ files' = files
           /\ ~last'.add_success
           /\ last'.inserted = <<>>
           /\ last'.comparisons # <<>>)]_vars

\* C7: after reconcile on a manifest that declares a deprecated coordinate of
\* DEPRECATED_MAPPINGS, the manifest declares none of them, declares the
\* migration target with the version and scope of each, and the fix result
\* reports success.
C7_DeprecatedMigrated ==
    [][(/\ last'.op = "reconcile"
        /\ \E d \in DeclaredIn(files) : Coord(d) \in DOMAIN DEPRECATED_MAPPINGS)
       => (/\ last'.fix_success
           /\ \A d \in DeclaredIn(files') : Coord(d) \notin DOMAIN DEPRECATED_MAPPINGS
           /\ \A d \in DeclaredIn(files) : Migrated(d) \in DeclaredIn(files'))]_vars

\* C8: a call with the dry-run option set, of reconcile or of the mutator,
\* leaves the build files and the backups as they are.
C8_DryRunWritesNothing ==
    [][(last'.op \in {"reconcile", "add"} /\ last'.dry_run)
       => (files' = files /\ backups' = backups)]_vars

\* C9: the health report leaves the build files and the backups as they are.
C9_HealthReportReadOnly ==
    [][last'.op = "health" => (files' = files /\ backups' = backups)]_vars

\* C9 witness: a health report of a project with a build file that lacks
\* requirements the engine would insert on reconcile.
C9_Witness ==
    /\ last.op = "health"
    /\ BuildFile(files) # ""
    /\ last.missing > 0
    /\ auto_add_missing_dependencies(files, last.comparisons).wrote # {}

\* C10: every health score reported, by the analysis inside reconcile and by
\* the health report, is max(0, 100 - 10*missing - 5*outdated - 5*deprecated)
\* over the comparisons of that analysis, and lies in 0..100.
C10_HealthFormula ==
    last.op \in {"analyze", "reconcile", "health"}
        => /\ last.health_score = FormulaScore(last.comparisons)
           /\ last.health_score \in 0 .. 100

\* C11: every requirement with status deprecated that analyze_requirements
\* returns, for any template category, accepted database type and flag
\* combination, has a migration target.
C11_DeprecatedHaveTarget ==
    last.op = "requirements" =>
        \A i \in DOMAIN last.reqs :
            last.reqs[i].status = "deprecated" => last.reqs[i].mt # ""

\* The legacy annotation-API, validation-API and API-doc coordinates.
LegacyCoords ==
    {Coord(FreshCatalog[k]) : k \in {"javax-annotation-deprecated",
                                     "javax-validation-deprecated",
                                     "swagger-annotations-deprecated"}}

\* C12: an analysis for MybatisPlus-Mixed / mysql with lombok, mapstruct and
\* swagger enabled, of a manifest that declares one coordinate and none of the
\* legacy coordinates, gives each legacy coordinate a comparison with status
\* deprecated.
C12_AbsentLegacyDeprecated ==
    (/\ last.op = "analyze"
     /\ profile.template_category = "MybatisPlus-Mixed"
     /\ profile.database_type = "mysql"
     /\ profile.include_swagger /\ profile.include_lombok /\ profile.include_mapstruct
     /\ Cardinality(DeclaredCoords(files)) = 1
     /\ DeclaredCoords(files) \cap LegacyCoords = {})
    => \A c \in LegacyCoords :
          /\ ComparisonsFor(c) # <<>>
          /\ \A i \in DOMAIN ComparisonsFor(c) : ComparisonsFor(c)[i].status = "deprecated"

\* The i-th numeric component of a version, 0 beyond the last one.
Component(v, i) == IF i <= Len(NumericParts(v)) THEN NumericParts(v)[i] ELSE 0

\* Tuple a of integers is less than tuple b, both padded with zeros: they
\* differ, and at the first place they differ a is the smaller.
TupleLess(a, b) ==
    \E i \in 1 .. Max({Len(NumericParts(a)), Len(NumericParts(b))}) :
        /\ Component(a, i) < Component(b, i)
        /\ \A j \in 1 .. (i - 1) : Component(a, j) = Component(b, j)

\* C13: the comparator says outdated exactly when the numeric components of the
\* existing version, padded with zeros, are less than those of the required
\* version as integer tuples; 1.2.3 against 1.10.0 is outdated, and an existing
\* version whose tuple is equal or greater is not.
C13_NumericOrdering ==
    last.op = "version" =>
        /\ last.is_outdated = TupleLess(last.args[1], last.args[2])
        /\ (last.args = <<<<1, 2, 3>>, <<1, 10, 0>>>> => last.is_outdated)
        /\ (last.args[1] = last.args[2] => ~last.is_outdated)
        /\ (TupleLess(last.args[2], last.args[1]) => ~last.is_outdated)

\* C13 witness: 1.2.3 has been compared with the requirement 1.10.0 and found
\* outdated.
C13_Witness ==
    /\ last.op = "version"
    /\ last.args = <<<<1, 2, 3>>, <<1, 10, 0>>>>
    /\ last.is_outdated

\* Every coordinate the last mutator call was asked for is in its skipped list.
AllSkipped(result) ==
    \A i \in DOMAIN result.args :
        \E j \in DOMAIN result.skipped : Coord(result.skipped[j]) = Coord(result.args[i])

RuledOut(coord) ==
    \/ coord = JpaCoord
    \/ coord = MybatisCoord
    \/ (Len(coord[1]) >= 2 /\ coord[1][1] \in {"jakarta", "javax"})

\* C15: whatever the profile, the manifest and the framework version, no
\* coordinate that reconcile reports as inserted, and no coordinate the manifest
\* declares after reconcile and did not declare before, is ruled out by the
\* insertion policy.
C15_PolicyOnInsertion ==
    [][last'.op = "reconcile"
       => /\ \A i \in DOMAIN last'.inserted : ~RuledOut(Coord(last'.inserted[i]))
          /\ \A c \in DeclaredCoords(files') \ DeclaredCoords(files) : ~RuledOut(c)]_vars

\* C15 witness: a reconcile that inserted dependencies while the analysis
\* reported a jakarta. or javax. coordinate as missing.
C15_Witness ==
    /\ last.op = "reconcile"
    /\ last.inserted # <<>>
    /\ last.wrote # {}
    /\ \E i \in DOMAIN last.comparisons :
          /\ last.comparisons[i].status = "missing"
          /\ RuledOut(Coord(last.comparisons[i].requirement))

\* C16: a backup file, once written, is still there with its content after any
\* later step, including a second mutating call in the same clock second.
C16_BackupsKept ==
    [][\A b \in backups : b \in backups']_vars

\* C17: reconcile on a project root without pom.xml, build.gradle and
\* build.gradle.kts reports that no build tool was detected, leaves files and
\* backups as they are, and returns an empty result: no comparisons, zero
\* dependencies added, zero deprecated entries fixed.
C17_NoBuildToolEmpty ==
    [][(last'.op = "reconcile" /\ \A f \in FileNames : ~Exists(files, f))
       => (/\ last'.build_tool = ""
           /\ files' = files /\ backups' = backups
           /\ last'.comparisons = <<>>
           /\ last'.added = 0
           /\ last'.fixed = 0)]_vars

\* C18: when the write of the manifest fails with an I/O error in the middle of
\* a mutator call, the manifest on disk still has its complete original content.
C18_WriteFailedKeepsOriginal ==
    [][(last'.op = "add" /\ last'.write_failed /\ clock' = clock) => files' = files]_vars

\* The number of dependency declarations in the build file.
Declarations(fs) ==
    IF BuildFile(fs) = "" THEN 0
    ELSE Count(fs[BuildFile(fs)], LAMBDA t : t.k \in {"dep", "decl"})

\* The deprecated declarations of fs that fs2 no longer has and has the
\* migration target of instead.
Replaced(fs, fs2) ==
    {d \in DeclaredIn(fs) :
        /\ Coord(d) \in DOMAIN DEPRECATED_MAPPINGS
        /\ d \notin DeclaredIn(fs2)
        /\ Migrated(d) \in DeclaredIn(fs2)}

\* C19: the result of reconcile reports as fixed the number of deprecated
\* declarations the call replaced in the manifest (0 when there is none to
\* replace or the fix pass failed), and as added the number of declarations the
\* call inserted.
C19_CountsMatch ==
    [][last'.op = "reconcile"
       => (/\ last'.fixed = Cardinality(Replaced(files, files'))
           /\ (~last'.fix_success => last'.fixed = 0)
           /\ last'.added = Len(last'.inserted)
           /\ last'.added = Declarations(files') - Declarations(files))]_vars

\* The catalog keys of the legacy / modern pairs: annotation API, validation
\* API, API documentation.
LegacyModernPairs ==
    {<<"javax-annotation-deprecated", "jakarta-annotation">>,
     <<"javax-validation-deprecated", "jakarta-validation">>,
     <<"swagger-annotations-deprecated", "springdoc-openapi">>}

\* The entries of the last requirement list with the coordinate of catalog key k.
EntriesOf(k) ==
    SelectSeq(last.reqs, LAMBDA r : Coord(r) = Coord(FreshCatalog[k]))

\* C20: for every profile, with include_swagger false too, the list returned by
\* analyze_requirements has exactly one legacy and one modern variant of the
\* annotation API, the validation API and the API documentation, the legacy one
\* tagged deprecated with the modern one as its migration target, the modern
\* one tagged recommended.
C20_PairsAlwaysListed ==
    last.op = "requirements" =>
        \A p \in LegacyModernPairs :
            /\ Len(EntriesOf(p[1])) = 1
            /\ Len(EntriesOf(p[2])) = 1
            /\ EntriesOf(p[1])[1].status = "deprecated"
            /\ EntriesOf(p[2])[1].status = "recommended"
            /\ EntriesOf(p[1])[1].mt = p[2]

\* The template categories analyze_requirements knows.
KnownTemplates == {"Default", "MybatisPlus", "MybatisPlus-Mixed"}

\* A database driver of the catalog (under either coordinate of the mysql one).
IsDriver(r) == \E k \in DATABASE_KEYS : Coord(r) = Coord(FreshCatalog[k])

\* C21: for an unknown template category or an unknown database type the
\* required set returned by analyze_requirements is the smallest one: core
\* framework starters and one database driver, nothing else.
C21_UnknownFallsBack ==
    (/\ last.op = "requirements"
     /\ (last.args[1] \notin KnownTemplates \/ Lower(last.args[2]) \notin DATABASE_KEYS))
    => /\ \E i \in DOMAIN last.required :
             Coord(last.required[i]) = <<BootGroup, <<"spring-boot-starter">>>>
       /\ Count(last.required, IsDriver) = 1
       /\ \A i \in DOMAIN last.required :
             last.required[i].g = BootGroup \/ IsDriver(last.required[i])

\* The dependencies the analyzer reads from the build file of fs.
ExistingDeps(fs) ==
    IF _detect_build_tool(fs) = "maven" THEN _parse_pom_file(fs)
    ELSE IF _detect_build_tool(fs) = "gradle" THEN _parse_gradle_file(fs, GradleFile(fs))
    ELSE <<>>

\* The existing dependencies with the coordinate of a requirement.
Matches(fs, req) ==
    {ExistingDeps(fs)[i] : i \in {j \in DOMAIN ExistingDeps(fs) :
                                    Coord(ExistingDeps(fs)[j]) = Coord(req)}}

\* The status the classification rule gives a requirement.
Classified(fs, req) ==
    IF Matches(fs, req) = {} THEN "missing"
    ELSE IF req.status = "deprecated" THEN "deprecated"
    ELSE IF \E d \in Matches(fs, req) : d.v # <<>> /\ TupleLess(d.v, req.v) THEN "outdated"
    ELSE "exists"

\* C22: every comparison of an analysis has status missing iff no existing
\* dependency has the requirement's coordinate, deprecated iff the requirement
\* is tagged deprecated and a match exists, outdated iff a match exists, the
\* requirement is not deprecated and the existing version numerically precedes
\* the required one, and exists in every other case.
C22_Classification ==
    last.op \in {"analyze", "health"} =>
        \A i \in DOMAIN last.comparisons :
            last.comparisons[i].status = Classified(files, last.comparisons[i].requirement)

\* C22 witness: an analysis of a manifest with declared dependencies that found
\* one requirement outdated or deprecated and another missing.
C22_Witness ==
    /\ last.op = "analyze"
    /\ \E i \in DOMAIN last.comparisons :
          last.comparisons[i].status \in {"outdated", "deprecated"}
    /\ \E i \in DOMAIN last.comparisons : last.comparisons[i].status = "missing"
    /\ ExistingDeps(files) # <<>>

\* A version with a part that is not a number.
NonNumeric(v) == \E i \in DOMAIN v : v[i] < 0

\* C23: when the existing version or the required version is not a dotted
\* numeric version, the comparator does not say outdated.
C23_NonNumericNotOutdated ==
    (last.op = "version" /\ (NonNumeric(last.args[1]) \/ NonNumeric(last.args[2])))
        => ~last.is_outdated

\* The last analysis has a line about the coordinate in the bucket.
InBucket(b, coord) ==
    \E i \in DOMAIN last.recommendations[b] : last.recommendations[b][i].coord = coord

\* C24: after an analysis, a comparison has a line in critical iff it is missing
\* with requirement status required, in important iff it is missing with status
\* recommended or is outdated, in optional iff it is missing with status
\* optional, in migration iff it is deprecated; a comparison of any other shape
\* has no line in any bucket.
C24_Bucketing ==
    last.op = "analyze" =>
        \A i \in DOMAIN last.comparisons :
            LET c == last.comparisons[i]
                coord == Coord(c.requirement)
                tag == c.requirement.status
            IN  /\ InBucket("critical", coord) <=> (c.status = "missing" /\ tag = "required")
                /\ InBucket("important", coord)
                     <=> ((c.status = "missing" /\ tag = "recommended") \/ c.status = "outdated")
                /\ InBucket("optional", coord) <=> (c.status = "missing" /\ tag = "optional")
                /\ InBucket("migration", coord) <=> c.status = "deprecated"

\* C25: in a mutator call with create_backup set that writes the manifest, a
\* backup of this second holds the content the manifest had before the call;
\* a call without create_backup, a dry run and a call that has nothing to add
\* create no backup.
C25_BackupBeforeWrite ==
    [][(last'.op = "add" /\ clock' = clock)
       => /\ (last'.create_backup /\ last'.wrote # {})
                => \A name \in last'.wrote :
                      [name |-> name, ts |-> clock, content |-> files[name]] \in backups'
          /\ (\/ ~last'.create_backup
              \/ last'.dry_run
              \/ \A i \in DOMAIN last'.args : Coord(last'.args[i]) \in DeclaredCoords(files))
                => backups' = backups]_vars

\* C25 witness: a mutator call with create_backup set has written the manifest
\* and the backup of this second differs from what the manifest holds now.
C25_Witness ==
    /\ last.op = "add"
    /\ last.create_backup /\ ~last.dry_run /\ ~last.write_failed
    /\ last.add_success
    /\ last.wrote # {}
    /\ \A name \in last.wrote :
          \E b \in backups : b.name = name /\ b.ts = clock /\ b.content # files[name]

\* C26: whatever mutating runs a Maven manifest has gone through, it holds the
\* marker comment of the engine at most once.
C26_SingleMarker ==
    (Exists(files, POM) /\ last.op \in {"add", "reconcile"} /\ ~last.write_failed)
        => Count(files[POM], LAMBDA t : t = Marker) <= 1

CompleteModern(fs, comparisons) ==
    /\ comparisons # <<>>
    /\ DeclaredCoords(fs) \cap LegacyCoords = {}
    /\ \A i \in DOMAIN comparisons :
          LET req == comparisons[i].requirement
          IN  IF req.status = "deprecated"
              THEN Matches(fs, req) = {}
              ELSE /\ Matches(fs, req) # {}
                   /\ \A d \in Matches(fs, req) : d.v # <<>> /\ ~TupleLess(d.v, req.v)

\* C28: a health report of a manifest that declares every non-deprecated
\* requirement of the report's profile at a version not below the required one,
\* and none of the deprecated coordinates, has health_score 100 with zero
\* missing, zero outdated and zero deprecated.
C28_CompleteScores100 ==
    (last.op = "health" /\ CompleteModern(files, last.comparisons))
        => /\ last.health_score = 100
           /\ last.missing = 0
           /\ last.outdated = 0
           /\ last.deprecated = 0

\* The coordinates the catalog tags deprecated.
CatalogDeprecated ==
    {Coord(FreshCatalog[k]) : k \in {key \in DOMAIN FreshCatalog :
                                        FreshCatalog[key].status = "deprecated"}}

\* The existing dependencies (one per coordinate) of the build file that the
\* catalog knows as deprecated.
DeprecatedExisting(fs) ==
    SelectSeq(DetectedDeps(ExistingDeps(fs)), LAMBDA d : Coord(d) \in CatalogDeprecated)

\* C29: the migration guide has exactly one suggestion per existing dependency
\* whose coordinate the catalog knows as deprecated, and total_suggestions is
\* the number of such dependencies.
C29_OneSuggestionEach ==
    (last.op = "guide" /\ last.success)
        => /\ last.total_suggestions = Len(DeprecatedExisting(files))
           /\ last.total_suggestions = Len(last.migration_suggestions)
           /\ \A i \in DOMAIN DeprecatedExisting(files) :
                 Count(last.migration_suggestions,
                       LAMBDA d : Coord(d) = Coord(DeprecatedExisting(files)[i])) = 1

\* C30: after adjust_versions_for_spring_boot(v) the mysql driver requirement
\* has the coordinate mysql:mysql-connector-java and the mapper starter the
\* artifact mybatis-plus-boot-starter iff v starts with "2."; for every other
\* version the driver is com.mysql:mysql-connector-j and the mapper starter is
\* mybatis-plus-spring-boot3-starter.
C30_LegacyOnlyForBoot2 ==
    (last.op = "requirements" /\ last.args[6] # <<>>)
        => IF StartsWithMajor(last.args[6], 2)
           THEN /\ Coord(catalog["mysql"]) = <<<<"mysql">>, <<"mysql-connector-java">>>>
                /\ catalog["mybatis-plus"].a = <<"mybatis-plus-boot-starter">>
           ELSE /\ Coord(catalog["mysql"]) = <<<<"com", "mysql">>, <<"mysql-connector-j">>>>
                /\ catalog["mybatis-plus"].a = <<"mybatis-plus-spring-boot3-starter">>
====
